---------------------------- MODULE Spec2Model ----------------------------
(***************************************************************************)
(* BirdProject: the classify job (src/src/classify_audio.py), the          *)
(* observation ingest job (src/src/ingest_observations.py) and the report  *)
(* job (src/src/generate_report.py) as state machines over the shared      *)
(* document store.                                                         *)
(*                                                                         *)
(* Five specifications share the variables:                                *)
(*   Spec        classify runs interleaved against one store               *)
(*   SeqSpec     the same runs executed one after another                  *)
(*   IngestSpec  ingest runs interleaved against one store                 *)
(*   ReportSpec  one report run over a stored corpus of outcomes           *)
(*   SimSpec     trigram_similarity applied to a pair of strings           *)
(* The store and the object store stay reachable after the start-up ping   *)
(* (a lost connection is the environment's failure, not the program's);    *)
(* the only store error modelled is the one the program provokes itself:   *)
(* DuplicateKeyError from the unique index.                                *)
(***************************************************************************)
EXTENDS Integers, Sequences, FiniteSets, TLC

\* ------------------------------------------------------------------ bounds
\* Classify (and ingest) processes started against the same store.
NumRuns == 2

Runs == 1..NumRuns

\* Lines one topic holds at most.
MaxLines == 2

\* The recordings the upload job left in audio_files, by audio_id.
AudioIds == {1, 2}

\* ------------------------------------------------------- JSON-like values
\* A parsed JSON value carries its Python type: the code tests isinstance,
\* truthiness and "is None" on it.
JNull == [kind |-> "null"]
JStr(s) == [kind |-> "str", s |-> s]
JNum(n) == [kind |-> "num", n |-> n]
JList(items) == [kind |-> "list", items |-> items]
JDict(f) == [kind |-> "dict", f |-> f]
\* A Python str held as its sequence of characters (the report job slices,
\* strips and lower-cases its strings).
JText(chars) == [kind |-> "text", s |-> chars]
EmptyDict == JDict(<<>>)

IsNone(v) == v.kind = "null"
IsDict(v) == v.kind = "dict"
IsList(v) == v.kind = "list"

\* Python truthiness: None, "", 0, [] and {} are falsy.
Truthy(v) ==
    CASE v.kind = "null" -> FALSE
      [] v.kind = "str" -> v.s # ""
      [] v.kind = "text" -> Len(v.s) > 0
      [] v.kind = "num" -> v.n # 0
      [] v.kind = "list" -> Len(v.items) > 0
      [] v.kind = "dict" -> DOMAIN v.f # {}

\* a or b
PyOr(a, b) == IF Truthy(a) THEN a ELSE b

\* d.get(k): None when the key is absent.
DictGet(d, k) == IF k \in DOMAIN d.f THEN d.f[k] ELSE JNull

\* float(x) inside try/except: a number converts, a numeric string parses
\* (scores are in hundredths: "0.7" is 70), anything else raises and the
\* except branch leaves None.
NumericStrings == {"0.7"}
ParseFloat(s) == IF s = "0.7" THEN 70 ELSE 0

ScoreOf(x) ==
    CASE x.kind = "null" -> JNull
      [] x.kind = "num" -> JNum(x.n)
      [] x.kind = "str" -> IF x.s \in NumericStrings THEN JNum(ParseFloat(x.s)) ELSE JNull
      [] OTHER -> JNull

\* label / taxon_code / species with "or", and the score of the same object.
LabelOf(o) == PyOr(PyOr(DictGet(o, "label"), DictGet(o, "taxon_code")), DictGet(o, "species"))

BestOf(o) == [label |-> LabelOf(o), score |-> ScoreOf(DictGet(o, "score"))]

NoBest == [label |-> JNull, score |-> JNull]

\* Step 4 of the loop body: best_label and best_score from the parsed payload.
Normalize(parsed) ==
    IF ~IsDict(parsed) THEN NoBest
    ELSE
      LET b == DictGet(parsed, "best")
          first == IF IsDict(b) THEN BestOf(b) ELSE NoBest
          preds == PyOr(DictGet(parsed, "predictions"), DictGet(parsed, "results"))
      IN  IF ~IsNone(first.label) THEN first
          ELSE IF IsList(preds) /\ Len(preds.items) > 0 /\ IsDict(preds.items[1])
               THEN BestOf(preds.items[1])
               ELSE first

\* ------------------------------------------------ the classifier's answers
\* A response body is text; what matters of it is whether json.loads accepts
\* it and the value it yields.
TextBody == [json |-> FALSE]
JsonBody(v) == [json |-> TRUE, value |-> v]

BodyBest == JsonBody(JDict([best |-> JDict([label |-> JStr("amerob"), score |-> JNum(90)])]))
BodyPreds == JsonBody(JDict([predictions |->
                 JList(<<JDict([taxon_code |-> JStr("baleag"), score |-> JStr("0.7")])>>)]))
BodyError == JsonBody(JDict([detail |-> JStr("error")]))
BodyBestNoLabel == JsonBody(JDict([best |-> JDict([score |-> JNum(90)])]))

Bodies == {TextBody, BodyBest, BodyPreds, BodyError, BodyBestNoLabel}
StatusCodes == {200, 500}

\* requests.post either raises a RequestException (timeout, connection
\* error) or returns a response with a status code and a body.
Raised(what) == [exc |-> TRUE, what |-> what]
Answered(code, body) == [exc |-> FALSE, status_code |-> code, body |-> body]

Responses ==
    {Raised("Timeout"), Raised("ConnectionError")}
    \cup {Answered(c, b) : c \in StatusCodes, b \in Bodies}

\* The interleaved specification draws the classifier's answers from a failed
\* and an answered request only; the sequential one draws them from Responses.
ConcurrentResponses == {Raised("Timeout"), Answered(200, BodyBest)}

NoResponse == [exc |-> TRUE, what |-> "none"]

\* resp.text or "" on an answer, str(ex) on an exception (never JSON).
RespText(resp) == IF resp.exc THEN TextBody ELSE resp.body

\* requests' Response.ok: no 4xx or 5xx status.
RespOk(resp) == ~resp.exc /\ resp.status_code < 400

ResponseMeta(resp) ==
    [status_code |-> IF resp.exc THEN JNull ELSE JNum(resp.status_code),
     ok |-> RespOk(resp)]

safe_json(body) == IF body.json THEN body.value ELSE JDict([raw |-> JStr("text")])

\* taxa_col.find_one({"taxon_code": best_label}) when best_label is truthy.
Taxa == {"amerob", "baleag"}
TaxonDoc(label) ==
    IF Truthy(label) /\ label.kind = "str" /\ label.s \in Taxa
    THEN JDict([latin_name |-> JStr(label.s)])
    ELSE JNull

\* The document insert_one is given. created_at is the inserting run's own
\* clock reading: the run stands for it.
OutcomeDoc(r, audio_id, resp) ==
    LET parsed == safe_json(RespText(resp))
        best == Normalize(parsed)
    IN  [audio_id |-> audio_id,
         created_at |-> r,
         http |-> ResponseMeta(resp),
         best_label |-> best.label,
         best_score |-> best.score,
         taxonomy |-> TaxonDoc(best.label),
         raw |-> parsed]

\* ------------------------------------------------------------------- state
VARIABLES
    audio_files,    \* the audio_files collection, in natural order
    cls,            \* the classifications collection, in insertion order
    log_puts,       \* put_object calls that stored logs/classify/{id}.json
    posts,          \* requests the classifier received, per recording
    downloads,      \* get_object calls that returned audio, per recording
    pc,             \* per run: where main() stands
    idx,            \* per run: position in its audios list
    resp,           \* per run: the response held for the current recording
    processed,      \* per run: the processed counter
    skipped,        \* per run: the skipped counter
    err,            \* per run: the exception that ended it ("" for none)
    \* ingest_observations.py
    kafka,          \* the lines the console consumer prints for a topic
    obs,            \* the field_observations collection, in insertion order
    topic,          \* per ingest run: KAFKA_TOPIC
    ipc,            \* per ingest run: where main() stands
    seq,            \* per ingest run: i of enumerate(filtered)
    ingested,       \* per ingest run: the upsert attempts counted
    \* generate_report.py
    cls_docs,       \* list(cls_col.find(...)): the corpus of outcomes
    threshold,      \* args.min_score, in units of 0.00001
    query,          \* args.species
    top_n,          \* args.top_n
    rpc,            \* where main() stands
    di,             \* position in "for doc in cls_docs"
    si,             \* position in "for r in results"
    agg,            \* species_key -> entry
    order,          \* the keys of agg in insertion order
    seen,           \* seen_audio_per_species
    rows,           \* the rows list
    \* generate_report.py, trigram_similarity(a, b)
    arg_a,          \* the argument a
    arg_b,          \* the argument b
    tpc,            \* "call" before the function is applied, "done" after
    sim_ab,         \* trigram_similarity(a, b)
    sim_ba,         \* trigram_similarity(b, a)
    sim_aa          \* trigram_similarity(a, a)

classifyVars == <<audio_files, cls, log_puts, posts, downloads, pc, idx, resp,
                  processed, skipped, err>>

ingestVars == <<kafka, obs, topic, ipc, seq, ingested>>

reportVars == <<cls_docs, threshold, query, top_n, rpc, di, si, agg, order, seen, rows>>

simVars == <<arg_a, arg_b, tpc, sim_ab, sim_ba, sim_aa>>

vars == <<classifyVars, ingestVars, reportVars, simVars>>

\* ------------------------------------------------------- classify: helpers
Audio(r) == audio_files[idx[r]]

\* Mutant of AlreadyClassified: the existence check never finds an outcome.
AlreadyClassified_Never(c, audio_id) == FALSE

\* cls_col.find_one({"audio_id": audio_id}, {"_id": 1})
AlreadyClassified(c, audio_id) == \E i \in 1..Len(c) : c[i].audio_id = audio_id

\* Mutant of UniqueIndexRefuses: the index is not unique.
UniqueIndexRefuses_Never(c, audio_id) == FALSE

\* The unique index on audio_id: whether an insert of this id must be refused.
UniqueIndexRefuses(c, audio_id) == \E i \in 1..Len(c) : c[i].audio_id = audio_id

\* cls_col.insert_one(doc) on a collection with the unique index.
InsertOne(c, doc) == Append(c, doc)

\* The end of one pass of "for a in audios": the next recording, or the
\* summary line and return 0.
Advance(r) ==
    /\ idx' = [idx EXCEPT ![r] = idx[r] + 1]
    /\ pc' = [pc EXCEPT ![r] = IF idx[r] + 1 > Len(audio_files) THEN "done" ELSE "check"]

\* ------------------------------------------------------- classify: actions
\* Connect, create the indexes, check the bucket, list the recordings.
Start(r) ==
    /\ pc[r] = "init"
    /\ idx' = [idx EXCEPT ![r] = 1]
    /\ pc' = [pc EXCEPT ![r] = IF Len(audio_files) = 0 THEN "done" ELSE "check"]
    /\ UNCHANGED <<audio_files, cls, log_puts, posts, downloads, resp, processed, skipped, err>>
    /\ UNCHANGED <<ingestVars, reportVars, simVars>>

\* "skip if already classified"
Check(r) ==
    /\ pc[r] = "check"
    /\ IF AlreadyClassified(cls, Audio(r).audio_id)
       THEN /\ skipped' = [skipped EXCEPT ![r] = skipped[r] + 1]
            /\ Advance(r)
       ELSE /\ pc' = [pc EXCEPT ![r] = "download"]
            /\ UNCHANGED <<idx, skipped>>
    /\ UNCHANGED <<audio_files, cls, log_puts, posts, downloads, resp, processed, err>>
    /\ UNCHANGED <<ingestVars, reportVars, simVars>>

\* 1) minio.get_object: the audio, or S3Error and on to the next recording.
Download(r) ==
    /\ pc[r] = "download"
    /\ \E got \in BOOLEAN :
         IF got
         THEN /\ downloads' = [downloads EXCEPT ![Audio(r).audio_id] = @ + 1]
              /\ pc' = [pc EXCEPT ![r] = "post"]
              /\ UNCHANGED idx
         ELSE /\ Advance(r)
              /\ UNCHANGED downloads
    /\ UNCHANGED <<audio_files, cls, log_puts, posts, resp, processed, skipped, err>>
    /\ UNCHANGED <<ingestVars, reportVars, simVars>>

\* 2) requests.post(classify_url, files, timeout)
Post(r, answers) ==
    /\ pc[r] = "post"
    /\ \E answer \in answers :
         resp' = [resp EXCEPT ![r] = answer]
    /\ posts' = [posts EXCEPT ![Audio(r).audio_id] = @ + 1]
    /\ pc' = [pc EXCEPT ![r] = "log"]
    /\ UNCHANGED <<audio_files, cls, log_puts, downloads, idx, processed, skipped, err>>
    /\ UNCHANGED <<ingestVars, reportVars, simVars>>

\* 3) minio.put_object of the request/response log; S3Error is only printed.
PutLog(r) ==
    /\ pc[r] = "log"
    /\ \E stored \in BOOLEAN :
         log_puts' = IF stored
                     THEN [log_puts EXCEPT ![Audio(r).audio_id] = @ + 1]
                     ELSE log_puts
    /\ pc' = [pc EXCEPT ![r] = "insert"]
    /\ UNCHANGED <<audio_files, cls, posts, downloads, idx, resp, processed, skipped, err>>
    /\ UNCHANGED <<ingestVars, reportVars, simVars>>

\* 4) normalize and cls_col.insert_one. DuplicateKeyError is a PyMongoError:
\* the except clause around the whole loop prints it and returns 1.
Insert(r) ==
    /\ pc[r] = "insert"
    /\ IF UniqueIndexRefuses(cls, Audio(r).audio_id)
       THEN /\ err' = [err EXCEPT ![r] = "DuplicateKeyError"]
            /\ pc' = [pc EXCEPT ![r] = "failed"]
            /\ UNCHANGED <<cls, idx, processed>>
       ELSE /\ cls' = InsertOne(cls, OutcomeDoc(r, Audio(r).audio_id, resp[r]))
            /\ processed' = [processed EXCEPT ![r] = processed[r] + 1]
            /\ Advance(r)
            /\ UNCHANGED err
    /\ resp' = [resp EXCEPT ![r] = NoResponse]
    /\ UNCHANGED <<audio_files, log_puts, posts, downloads, skipped>>
    /\ UNCHANGED <<ingestVars, reportVars, simVars>>

ClassifyStep(r) ==
    \/ Start(r)
    \/ Check(r)
    \/ Download(r)
    \/ Post(r, ConcurrentResponses)
    \/ PutLog(r)
    \/ Insert(r)

Finished(r) == pc[r] \in {"done", "failed"}

\* main()'s return value once it has returned.
ExitCode(r) == IF pc[r] = "failed" THEN 1 ELSE 0

ClassifyInit ==
    /\ audio_files = [i \in 1..Cardinality(AudioIds) |-> [audio_id |-> i, object_name |-> i]]
    /\ cls = <<>>
    /\ log_puts = [a \in AudioIds |-> 0]
    /\ posts = [a \in AudioIds |-> 0]
    /\ downloads = [a \in AudioIds |-> 0]
    /\ pc = [r \in Runs |-> "init"]
    /\ idx = [r \in Runs |-> 0]
    /\ resp = [r \in Runs |-> NoResponse]
    /\ processed = [r \in Runs |-> 0]
    /\ skipped = [r \in Runs |-> 0]
    /\ err = [r \in Runs |-> ""]

\* -------------------------------------------------- ingest: lines and docs
Topics == {"birds", "bats"}

\* A line of consumer output: a JSON object, JSON that is no object, or text
\* json.loads refuses.
LineObservation == JsonBody(JDict([taxon_code |-> JStr("amerob"), lat |-> JNum(45), lon |-> JStr("0.7")]))
LineArray == JsonBody(JList(<<JNum(1)>>))
Lines == {LineObservation, LineArray, TextBody}

RECURSIVE SeqsUpTo(_, _)
\* All sequences over S of length at most n.
SeqsUpTo(S, n) ==
    IF n = 0 THEN {<<>>}
    ELSE LET shorter == SeqsUpTo(S, n - 1)
         IN  shorter \cup {Append(q, x) : q \in {p \in shorter : Len(p) = n - 1}, x \in S}

ingest_safe_json(line) == IF line.json THEN line.value ELSE JDict([_raw |-> JStr("text")])

\* to_float of extract_taxon_and_geo
to_float(x) == ScoreOf(x)

\* str(taxon) if taxon is not None else None
StrOrNone(v) ==
    CASE v.kind = "null" -> JNull
      [] v.kind = "str" -> v
      [] v.kind = "num" -> JStr(ToString(v.n))
      [] OTHER -> JStr("repr")

\* extract_taxon_and_geo(payload) for a dict payload. payload.get on anything
\* else raises AttributeError (see IngestLine).
extract_taxon_and_geo(payload) ==
    LET get(k) == DictGet(payload, k)
        taxon == PyOr(PyOr(PyOr(PyOr(PyOr(PyOr(get("taxon_code"), get("taxonCode")),
                     get("species_code")), get("speciesCode")), get("taxon")),
                     get("species")), get("code"))
        lat0 == PyOr(get("lat"), get("latitude"))
        lon0 == PyOr(PyOr(PyOr(get("lon"), get("lng")), get("longitude")), get("long"))
        loc == PyOr(PyOr(get("location"), get("geo")), get("coordinates"))
        lat == IF IsDict(loc)
               THEN PyOr(PyOr(lat0, DictGet(loc, "lat")), DictGet(loc, "latitude"))
               ELSE lat0
        lon == IF IsDict(loc)
               THEN PyOr(PyOr(PyOr(lon0, DictGet(loc, "lon")), DictGet(loc, "lng")),
                         DictGet(loc, "longitude"))
               ELSE lon0
    IN  [taxon_code |-> StrOrNone(taxon), lat |-> to_float(lat), lon |-> to_float(lon)]

\* The document of one line. ingested_at is the run's own clock reading: the
\* run stands for it.
ObservationDoc(r, t, i, payload) ==
    LET e == extract_taxon_and_geo(payload)
    IN  [source |-> "kafka",
         topic |-> t,
         seq |-> i,
         ingested_at |-> r,
         taxon_code |-> e.taxon_code,
         lat |-> e.lat,
         lon |-> e.lon,
         payload |-> payload]

\* The filter {"topic": topic, "seq": i} of update_one.
Matches(d, t, i) == d.topic = t /\ d.seq = i

\* Mutant of UpsertSetOnInsert: "$set" in place of "$setOnInsert".
UpsertSet(o, t, i, doc) ==
    IF \E k \in 1..Len(o) : Matches(o[k], t, i)
    THEN [k \in 1..Len(o) |-> IF Matches(o[k], t, i) THEN doc ELSE o[k]]
    ELSE Append(o, doc)

\* col.update_one(filter, {"$setOnInsert": doc}, upsert=True): a matching
\* document is left as it is, otherwise doc is inserted.
UpsertSetOnInsert(o, t, i, doc) ==
    IF \E k \in 1..Len(o) : Matches(o[k], t, i)
    THEN o
    ELSE Append(o, doc)

\* ---------------------------------------------------------- ingest: actions
\* Check docker, connect, create the indexes, consume the topic once.
IngestStart(r) ==
    /\ ipc[r] = "init"
    /\ seq' = [seq EXCEPT ![r] = 0]
    /\ ipc' = [ipc EXCEPT ![r] = IF Len(kafka[topic[r]]) = 0 THEN "done" ELSE "loop"]
    /\ UNCHANGED <<kafka, obs, topic, ingested>>
    /\ UNCHANGED <<classifyVars, reportVars, simVars>>

\* One pass of "for i, line in enumerate(filtered)". A payload that is no
\* dict makes payload.get raise AttributeError, which "except Exception"
\* around the loop turns into return 1.
IngestLine(r) ==
    /\ ipc[r] = "loop"
    /\ LET line == kafka[topic[r]][seq[r] + 1]
           payload == ingest_safe_json(line)
       IN  IF ~IsDict(payload)
           THEN /\ ipc' = [ipc EXCEPT ![r] = "failed"]
                /\ UNCHANGED <<obs, seq, ingested>>
           ELSE /\ obs' = UpsertSetOnInsert(obs, topic[r], seq[r],
                                            ObservationDoc(r, topic[r], seq[r], payload))
                /\ ingested' = [ingested EXCEPT ![r] = ingested[r] + 1]
                /\ seq' = [seq EXCEPT ![r] = seq[r] + 1]
                /\ ipc' = [ipc EXCEPT ![r] =
                              IF seq[r] + 1 >= Len(kafka[topic[r]]) THEN "done" ELSE "loop"]
    /\ UNCHANGED <<kafka, topic>>
    /\ UNCHANGED <<classifyVars, reportVars, simVars>>

\* trigram_similarity is not called.
SimIdle ==
    /\ arg_a = <<>>
    /\ arg_b = <<>>
    /\ tpc = "done"
    /\ sim_ab = [num |-> 0, den |-> 1]
    /\ sim_ba = [num |-> 0, den |-> 1]
    /\ sim_aa = [num |-> 0, den |-> 1]

\* No report run is started.
ReportIdle ==
    /\ cls_docs = <<>>
    /\ threshold = 30000
    /\ query = JNull
    /\ top_n = 0
    /\ rpc = "done"
    /\ di = 1
    /\ si = 1
    /\ agg = <<>>
    /\ order = <<>>
    /\ seen = <<>>
    /\ rows = <<>>

\* No ingest run is started.
IngestIdle ==
    /\ kafka = [t \in Topics |-> <<>>]
    /\ obs = <<>>
    /\ topic = [r \in Runs |-> "birds"]
    /\ ipc = [r \in Runs |-> "done"]
    /\ seq = [r \in Runs |-> 0]
    /\ ingested = [r \in Runs |-> 0]

\* No classify run is started.
ClassifyIdle ==
    /\ audio_files = <<>>
    /\ cls = <<>>
    /\ log_puts = [a \in AudioIds |-> 0]
    /\ posts = [a \in AudioIds |-> 0]
    /\ downloads = [a \in AudioIds |-> 0]
    /\ pc = [r \in Runs |-> "done"]
    /\ idx = [r \in Runs |-> 0]
    /\ resp = [r \in Runs |-> NoResponse]
    /\ processed = [r \in Runs |-> 0]
    /\ skipped = [r \in Runs |-> 0]
    /\ err = [r \in Runs |-> ""]

\* Every topic holds the same batch of lines on every run (the consumer reads
\* from the beginning); each run is given its topic.
IngestInit ==
    /\ \E batch \in SeqsUpTo(Lines, MaxLines) : kafka = [t \in Topics |-> batch]
    /\ obs = <<>>
    /\ topic \in [Runs -> Topics]
    /\ ipc = [r \in Runs |-> "init"]
    /\ seq = [r \in Runs |-> 0]
    /\ ingested = [r \in Runs |-> 0]
    /\ ClassifyIdle
    /\ ReportIdle
    /\ SimIdle

IngestNext == \E r \in Runs : IngestStart(r) \/ IngestLine(r)

IngestSpec == IngestInit /\ [][IngestNext]_vars

\* C5: whatever the interleaving of ingest runs over the same batch, the
\* collection holds exactly one document for every (topic, seq) a run has
\* upserted and never two for one pair, and no step changes a document that
\* is already there.
C5_OneDocumentPerTopicSeq ==
    /\ [](\A i, j \in 1..Len(obs) :
            (obs[i].topic = obs[j].topic /\ obs[i].seq = obs[j].seq) => i = j)
    /\ [](\A r \in Runs : \A n \in 0..(seq[r] - 1) :
            \E i \in 1..Len(obs) : obs[i].topic = topic[r] /\ obs[i].seq = n)
    /\ [][\A i \in 1..Len(obs) : i <= Len(obs') /\ obs'[i] = obs[i]]_vars

\* C5 witness: two runs have gone through the same non-empty batch of the
\* same topic and the topic has one document per line.
C5_Witness ==
    \E r1, r2 \in Runs :
        /\ r1 # r2
        /\ topic[r1] = topic[r2]
        /\ ipc[r1] = "done" /\ ipc[r2] = "done"
        /\ ingested[r1] = MaxLines /\ ingested[r2] = MaxLines
        /\ Cardinality({i \in 1..Len(obs) : obs[i].topic = topic[r1]}) = MaxLines
        /\ \E i \in 1..Len(obs) : obs[i].ingested_at = r1
        /\ \E i \in 1..Len(obs) : obs[i].ingested_at = r2

\* C14 (as claimed): a line that parses to something other than a JSON
\* object is skipped and the rest of the batch is still processed: no run
\* is aborted, and a finished run has left a document for every other line.
C14_MalformedLineIsSkipped ==
    \A r \in Runs :
        ipc[r] \in {"done", "failed"} =>
            /\ ipc[r] = "done"
            /\ \A n \in 1..Len(kafka[topic[r]]) :
                  IsDict(ingest_safe_json(kafka[topic[r]][n]))
                      => \E i \in 1..Len(obs) : Matches(obs[i], topic[r], n - 1)

\* ------------------------------------------------------ report: strings
UpperCase == <<"A", "B", "C", "D", "E", "F", "G", "H", "I", "J", "K", "L", "M", "N", "O", "P", "Q", "R", "S", "T", "U", "V", "W", "X", "Y", "Z">>
LowerCase == <<"a", "b", "c", "d", "e", "f", "g", "h", "i", "j", "k", "l", "m", "n", "o", "p", "q", "r", "s", "t", "u", "v", "w", "x", "y", "z">>

\* str.lower() on one character
LowerChar(c) ==
    IF \E i \in 1..Len(UpperCase) : UpperCase[i] = c
    THEN LowerCase[CHOOSE i \in 1..Len(UpperCase) : UpperCase[i] = c]
    ELSE c

Lower(s) == [i \in 1..Len(s) |-> LowerChar(s[i])]

\* What str.strip() removes and \s matches.
IsSpace(c) == c \in {" ", "\t"}

RECURSIVE LStrip(_)
LStrip(s) == IF s # <<>> /\ IsSpace(Head(s)) THEN LStrip(Tail(s)) ELSE s

RECURSIVE RStrip(_)
RStrip(s) == IF s # <<>> /\ IsSpace(s[Len(s)]) THEN RStrip(SubSeq(s, 1, Len(s) - 1)) ELSE s

\* str.strip()
Strip(s) == RStrip(LStrip(s))

RECURSIVE CollapseSpaces(_)
\* re.sub(r"\s+", " ", s)
CollapseSpaces(s) ==
    IF s = <<>> THEN <<>>
    ELSE IF IsSpace(Head(s)) THEN <<" ">> \o CollapseSpaces(LStrip(Tail(s)))
    ELSE <<Head(s)>> \o CollapseSpaces(Tail(s))

norm(s) == CollapseSpaces(Strip(Lower(s)))

trigram_set(s) ==
    LET p == <<" ", " ">> \o norm(s) \o <<" ", " ">>
    IN  IF Len(p) < 3 THEN {} ELSE {SubSeq(p, i, i + 2) : i \in 1..(Len(p) - 2)}

\* Mutant of trigram_similarity: the share of a's trigrams found in b.
trigram_similarity_Containment(a, b) ==
    LET A == trigram_set(a)
        B == trigram_set(b)
    IN  IF A = {} \/ B = {} THEN [num |-> 0, den |-> 1]
        ELSE [num |-> Cardinality(A \cap B), den |-> Cardinality(A)]

\* The Jaccard index as the fraction num/den (0/1 for the early return 0.0).
trigram_similarity(a, b) ==
    LET A == trigram_set(a)
        B == trigram_set(b)
    IN  IF A = {} \/ B = {} THEN [num |-> 0, den |-> 1]
        ELSE [num |-> Cardinality(A \cap B), den |-> Cardinality(A \cup B)]

\* min_score = 0.35, in hundredths
MinScore == 35

\* s >= min_score for a similarity s = num/den. The quotient of two small
\* integers is either exactly 7/20, which the float division rounds to the
\* literal 0.35, or further from it than any rounding error.
AtLeast(sim, hundredths) == sim.num * 100 >= hundredths * sim.den

Range(q) == {q[i] : i \in 1..Len(q)}

fuzzy_match(q, candidates, min_score) ==
    {c \in Range(candidates) : AtLeast(trigram_similarity(q, c), min_score)}

\* ------------------------------------------- trigram_similarity on its own
\* Characters of the argument strings and their length at most.
Alphabet == {"a", "B", " "}
MaxLen == 3

Strings == SeqsUpTo(Alphabet, MaxLen)

\* "" or whitespace only
IsBlank(s) == \A i \in 1..Len(s) : IsSpace(s[i])

\* Two fractions that denote the same number.
SameValue(x, y) == x.num * y.den = y.num * x.den

IsZero(x) == x.num = 0
IsOne(x) == x.num = x.den

\* The calls trigram_similarity(a, b), (b, a) and (a, a).
Similarity ==
    /\ tpc = "call"
    /\ sim_ab' = trigram_similarity(arg_a, arg_b)
    /\ sim_ba' = trigram_similarity(arg_b, arg_a)
    /\ sim_aa' = trigram_similarity(arg_a, arg_a)
    /\ tpc' = "done"
    /\ UNCHANGED <<arg_a, arg_b>>
    /\ UNCHANGED <<classifyVars, ingestVars, reportVars>>

SimInit ==
    /\ arg_a \in Strings
    /\ arg_b \in Strings
    /\ tpc = "call"
    /\ sim_ab = [num |-> 0, den |-> 1]
    /\ sim_ba = [num |-> 0, den |-> 1]
    /\ sim_aa = [num |-> 0, den |-> 1]
    /\ ClassifyIdle
    /\ IngestIdle
    /\ ReportIdle

SimNext == Similarity

SimSpec == SimInit /\ [][SimNext]_vars

\* C11: trigram_similarity(a, b) = trigram_similarity(b, a) for all strings,
\* and trigram_similarity(a, a) = 1.0 for every a with at least one trigram.
C11_SymmetricAndReflexive ==
    tpc = "done" =>
        /\ SameValue(sim_ab, sim_ba)
        /\ trigram_set(arg_a) # {} => IsOne(sim_aa)

\* C11 witness: two different strings that share some trigrams but not all
\* have been compared both ways.
C11_Witness ==
    /\ tpc = "done"
    /\ arg_a # arg_b
    /\ sim_ab.num > 0
    /\ sim_ab.num < sim_ab.den
    /\ sim_ab = sim_ba
    /\ IsOne(sim_aa)

\* C12 (as claimed): the similarity is 0 whenever either argument is empty
\* or whitespace only, both arguments empty included.
C12_BlankIsZero ==
    (tpc = "done" /\ (IsBlank(arg_a) \/ IsBlank(arg_b))) => IsZero(sim_ab)

\* ------------------------------------------------------- report: the corpus
T_amerob == <<"a", "m", "e", "r", "o", "b">>
T_baleag == <<"b", "a", "l", "e", "a", "g">>
T_turdus == <<"T", "u", "r", "d", "u", "s", " ", "m", "i", "g", "r", "a", "t", "o", "r", "i", "u", "s">>
T_turdus_padded == <<" ", "T", "u", "r", "d", "u", "s", " ", "m", "i", "g", "r", "a", "t", "o", "r", "i", "u", "s", " ">>
T_haliaeetus == <<"H", "a", "l", "i", "a", "e", "e", "t", "u", "s", " ", "l", "e", "u", "c", "o", "c", "e", "p", "h", "a", "l", "u", "s">>
T_american_robin == <<"A", "m", "e", "r", "i", "c", "a", "n", " ", "R", "o", "b", "i", "n">>
T_bald_eagle == <<"B", "a", "l", "d", " ", "E", "a", "g", "l", "e">>
T_unknown == <<"u", "n", "k", "n", "o", "w", "n">>
T_unknown_common == <<"(", "u", "n", "k", "n", "o", "w", "n", ")">>
T_robin == <<"r", "o", "b", "i", "n">>
T_amerob_typed == <<" ", "A", "m", "e", "R", "o", "b">>
T_not_a_number == <<"n", "/", "a">>

\* Segments of raw.results, confidences in units of 0.00001 (none ends in 5,
\* so round(x, 4) never meets a tie).
SegRobin == JDict([label |-> JText(T_amerob), scientific_name |-> JText(T_turdus),
                   common_name |-> JText(T_american_robin), confidence |-> JNum(80000)])
SegRobinAtThreshold == JDict([label |-> JText(T_amerob), scientific_name |-> JText(T_turdus_padded),
                   confidence |-> JNum(30000)])
SegEagleByLabel == JDict([label |-> JText(T_baleag), common_name |-> JText(T_bald_eagle),
                   confidence |-> JNum(60004)])
SegNameless == JDict([confidence |-> JNum(60001)])
SegEagleWeak == JDict([label |-> JText(T_baleag), scientific_name |-> JText(T_haliaeetus),
                   common_name |-> JText(T_bald_eagle), confidence |-> JNum(29999)])
SegRobinNoNumber == JDict([label |-> JText(T_amerob), scientific_name |-> JText(T_turdus),
                   confidence |-> JText(T_not_a_number)])
SegEagleOutOfRange == JDict([label |-> JText(T_baleag), scientific_name |-> JText(T_haliaeetus),
                   common_name |-> JText(T_bald_eagle), confidence |-> JNum(150000)])
SegNotADict == JNum(1)

Segments == {SegRobin, SegRobinAtThreshold, SegEagleByLabel, SegNameless, SegEagleWeak,
             SegRobinNoNumber, SegEagleOutOfRange, SegNotADict}

\* Segments in the whole corpus at most.
MaxSegs == 2

\* What an outcome carries besides its results: its coordinates and the
\* best_label the classify job stored.
DocShapes == {[geo |-> JDict([lat |-> JNum(45), lon |-> JNum(16)]), best_label |-> JNull],
              [geo |-> JNull, best_label |-> JText(T_baleag)]}

\* An outcome as the projection of find() returns it: with results, raw is
\* the payload {"results": [...]}; without, the echo {"raw": "..."}.
ClsDoc(audio_id, shape, results) ==
    [audio_id |-> JNum(audio_id),
     geo |-> shape.geo,
     best_label |-> shape.best_label,
     raw |-> IF results = <<>> THEN JDict([raw |-> JText(T_not_a_number)])
             ELSE JDict([results |-> JList(results)])]

\* One outcome per recording (the unique index), MaxSegs segments in all.
Corpora ==
    {[a \in AudioIds |-> ClsDoc(a, shape[a], res[a])] :
        shape \in [AudioIds -> DocShapes],
        res \in {f \in [AudioIds -> SeqsUpTo(Segments, MaxSegs)] :
                    Len(f[1]) + Len(f[2]) <= MaxSegs}}

Thresholds == {30000, 80000}
NoQuery == JNull
Queries == {NoQuery, JText(T_robin), JText(T_amerob_typed)}
TopNs == {0, 1, 2}

\* ------------------------------------------------------ report: aggregation
safe_float(x) ==
    CASE x.kind = "null" -> JNull
      [] x.kind = "num" -> JNum(x.n)
      [] OTHER -> JNull

\* str(x) of a value that is a str already; the corpus holds no other labels.
PyStr(v) == IF v.kind = "text" THEN v.s ELSE <<"?">>

\* The results list of a document, empty when "continue" skips the document.
ResultsOf(doc) ==
    LET raw == PyOr(doc.raw, EmptyDict)
        results == IF IsDict(raw) THEN DictGet(raw, "results") ELSE JNull
    IN  IF IsList(results) THEN results.items ELSE <<>>

RECURSIVE SeekFrom(_, _, _)
\* The next (document, result) the two nested loops reach from (d, s).
SeekFrom(docs, d, s) ==
    IF d > Len(docs) THEN <<d, 1>>
    ELSE IF s <= Len(ResultsOf(docs[d])) THEN <<d, s>>
    ELSE SeekFrom(docs, d + 1, 1)

SegLabel(doc, r) == PyOr(PyOr(DictGet(r, "label"), doc.best_label), JText(T_unknown))
SegScientific(r) == PyOr(DictGet(r, "scientific_name"), JText(<<>>))
SegCommon(r) == PyOr(DictGet(r, "common_name"), JText(<<>>))

\* species_key = scientific.strip() if scientific.strip() else str(label).strip()
SpeciesKey(doc, r) ==
    LET scientific == Strip(SegScientific(r).s)
    IN  IF scientific # <<>> THEN scientific ELSE Strip(PyStr(SegLabel(doc, r)))

\* The default of agg.setdefault.
NewEntry(doc, r) ==
    [scientific_name |-> Strip(SegScientific(r).s),
     common_name |-> Strip(SegCommon(r).s),
     label |-> Strip(PyStr(SegLabel(doc, r))),
     positive_segments |-> 0,
     segments_total |-> 0,
     confidence_sum |-> 0,
     confidence_n |-> 0,
     max_confidence |-> 0,
     sample_lat |-> JNull,
     sample_lon |-> JNull]

\* Mutant of IsPositive: ">" in place of ">=".
IsPositive_Strict(confidence, thr) == confidence > thr

\* float(confidence) >= threshold
IsPositive(confidence, thr) == confidence >= thr

\* Mutant of FoldEntry: the two counters' increments swapped.
FoldEntry_Swapped(e, confidence, thr, geo) ==
    [e EXCEPT
        !.positive_segments = @ + 1,
        !.confidence_sum = @ + confidence,
        !.confidence_n = @ + 1,
        !.max_confidence = IF confidence > @ THEN confidence ELSE @,
        !.segments_total = IF IsPositive(confidence, thr) THEN @ + 1 ELSE @,
        !.sample_lat = IF IsNone(e.sample_lat) THEN DictGet(geo, "lat") ELSE @,
        !.sample_lon = IF IsNone(e.sample_lat) THEN DictGet(geo, "lon") ELSE @]

\* The updates of one counted segment to its entry.
FoldEntry(e, confidence, thr, geo) ==
    [e EXCEPT
        !.segments_total = @ + 1,
        !.confidence_sum = @ + confidence,
        !.confidence_n = @ + 1,
        !.max_confidence = IF confidence > @ THEN confidence ELSE @,
        !.positive_segments = IF IsPositive(confidence, thr) THEN @ + 1 ELSE @,
        !.sample_lat = IF IsNone(e.sample_lat) THEN DictGet(geo, "lat") ELSE @,
        !.sample_lon = IF IsNone(e.sample_lat) THEN DictGet(geo, "lon") ELSE @]

\* One pass of "for r in results" (with the "for doc" bookkeeping around it).
FoldSegment ==
    /\ rpc = "fold"
    /\ LET doc == cls_docs[di]
           r == ResultsOf(doc)[si]
           geo == PyOr(doc.geo, EmptyDict)
           confidence == IF IsDict(r) THEN safe_float(DictGet(r, "confidence")) ELSE JNull
           key == SpeciesKey(doc, r)
           nxt == SeekFrom(cls_docs, di, si + 1)
       IN  /\ IF ~IsDict(r) \/ IsNone(confidence)
              THEN UNCHANGED <<agg, order, seen>>
              ELSE LET old == IF key \in DOMAIN agg THEN agg[key] ELSE NewEntry(doc, r)
                       new == FoldEntry(old, confidence.n, threshold, geo)
                       was == IF key \in DOMAIN seen THEN seen[key] ELSE {}
                   IN  /\ agg' = [k \in DOMAIN agg \cup {key} |-> IF k = key THEN new ELSE agg[k]]
                       /\ order' = IF key \in DOMAIN agg THEN order ELSE Append(order, key)
                       /\ seen' = IF Truthy(doc.audio_id)
                                  THEN [k \in DOMAIN seen \cup {key} |->
                                           IF k = key THEN was \cup {doc.audio_id.n} ELSE seen[k]]
                                  ELSE seen
           /\ di' = nxt[1]
           /\ si' = nxt[2]
           /\ rpc' = IF nxt[1] > Len(cls_docs) THEN "rows" ELSE "fold"
    /\ UNCHANGED <<cls_docs, threshold, query, top_n, rows>>
    /\ UNCHANGED <<classifyVars, ingestVars, simVars>>

\* ------------------------------------------------------------ report: rows
\* round(x, 4) of a non-negative x in units of 0.00001.
Round4(x) == ((x + 5) \div 10) * 10

\* Mutant of KeepsRow: every species gets a row.
KeepsRow_All(e) == TRUE

\* "if e['positive_segments'] <= 0: continue"
KeepsRow(e) == e.positive_segments > 0

\* The row of one entry, after the cleaning loop: "(unknown)" for an empty
\* common name, both names stripped. avg_confidence and observations_count
\* are written to the CSV and read by nothing else; they are left out.
RowOf(key, e, audios) ==
    [scientific_name |-> Strip(IF e.scientific_name # <<>> THEN e.scientific_name ELSE key),
     common_name |-> Strip(IF e.common_name # <<>> THEN e.common_name ELSE T_unknown_common),
     label |-> e.label,
     audio_files_count |-> Cardinality(audios),
     positive_segments |-> e.positive_segments,
     segments_total |-> e.segments_total,
     max_confidence |-> Round4(e.max_confidence),
     sample_lat |-> e.sample_lat,
     sample_lon |-> e.sample_lon]

RECURSIVE RowsFrom(_, _, _)
\* "for species_key, e in agg.items()" over the keys in insertion order.
RowsFrom(keys, a, sn) ==
    IF keys = <<>> THEN <<>>
    ELSE LET k == Head(keys)
             rest == RowsFrom(Tail(keys), a, sn)
         IN  IF KeepsRow(a[k])
             THEN <<RowOf(k, a[k], IF k \in DOMAIN sn THEN sn[k] ELSE {})>> \o rest
             ELSE rest

\* The rows loop and the cleaning loop.
BuildRows ==
    /\ rpc = "rows"
    /\ rows' = RowsFrom(order, agg, seen)
    /\ rpc' = "filter"
    /\ UNCHANGED <<cls_docs, threshold, query, top_n, di, si, agg, order, seen>>
    /\ UNCHANGED <<classifyVars, ingestVars, simVars>>

RECURSIVE Flatten(_)
Flatten(qs) == IF qs = <<>> THEN <<>> ELSE Head(qs) \o Flatten(Tail(qs))

\* candidates.extend([scientific_name, common_name, label]) for every row
Candidates(rs) == Flatten([i \in 1..Len(rs) |-> <<rs[i].scientific_name, rs[i].common_name, rs[i].label>>])

\* Mutant of is_allowed: the label is not looked up.
is_allowed_NoLabel(r, q, allowed) ==
    \/ r.scientific_name \in allowed
    \/ r.common_name \in allowed
    \/ AtLeast(trigram_similarity(q, r.scientific_name), MinScore)
    \/ AtLeast(trigram_similarity(q, r.common_name), MinScore)

is_allowed(r, q, allowed) ==
    \/ r.scientific_name \in allowed
    \/ r.common_name \in allowed
    \/ r.label \in allowed
    \/ AtLeast(trigram_similarity(q, r.scientific_name), MinScore)
    \/ AtLeast(trigram_similarity(q, r.common_name), MinScore)

\* "if args.species:" and the filter under it. args.species is first read
\* here, so the model draws it here.
FilterRows(rs, q) ==
    IF Truthy(q)
    THEN LET allowed == fuzzy_match(q.s, Candidates(rs), MinScore)
             keep(r) == is_allowed(r, q.s, allowed)
         IN  SelectSeq(rs, keep)
    ELSE rs

Filter ==
    /\ rpc = "filter"
    /\ \E q \in Queries :
         /\ query' = q
         /\ rows' = FilterRows(rows, q)
    /\ rpc' = "sort"
    /\ UNCHANGED <<cls_docs, threshold, top_n, di, si, agg, order, seen>>
    /\ UNCHANGED <<classifyVars, ingestVars, simVars>>

\* The sort key compared: (positive_segments, max_confidence) of a above b.
KeyAbove(a, b) ==
    \/ a.positive_segments > b.positive_segments
    \/ a.positive_segments = b.positive_segments /\ a.max_confidence > b.max_confidence

\* x put after every row whose key is not below its own: a stable sort.
InsertRow(sorted, x) ==
    IF \E i \in 1..Len(sorted) : KeyAbove(x, sorted[i])
    THEN LET p == CHOOSE i \in 1..Len(sorted) :
                      /\ KeyAbove(x, sorted[i])
                      /\ \A j \in 1..(i - 1) : ~KeyAbove(x, sorted[j])
         IN  SubSeq(sorted, 1, p - 1) \o <<x>> \o SubSeq(sorted, p, Len(sorted))
    ELSE Append(sorted, x)

RECURSIVE SortFrom(_, _)
SortFrom(sorted, rest) ==
    IF rest = <<>> THEN sorted ELSE SortFrom(InsertRow(sorted, Head(rest)), Tail(rest))

\* Mutant of SortRows: reverse=True forgotten.
SortRows_Ascending(rs) ==
    LET d == SortFrom(<<>>, rs) IN [i \in 1..Len(d) |-> d[Len(d) + 1 - i]]

\* rows.sort(key=(positive_segments, max_confidence), reverse=True)
SortRows(rs) == SortFrom(<<>>, rs)

\* rows[: top_n] when top_n > 0
Truncate(rs, n) == IF n # 0 /\ n > 0 THEN SubSeq(rs, 1, IF n < Len(rs) THEN n ELSE Len(rs)) ELSE rs

\* The sort, the truncation, and the CSV written from the rows. args.top_n
\* is first read here, so the model draws it here.
SortAndTruncate ==
    /\ rpc = "sort"
    /\ \E n \in TopNs :
         /\ top_n' = n
         /\ rows' = Truncate(SortRows(rows), n)
    /\ rpc' = "done"
    /\ UNCHANGED <<cls_docs, threshold, query, di, si, agg, order, seen>>
    /\ UNCHANGED <<classifyVars, ingestVars, simVars>>

\* The state once the classifications are loaded.
ReportInit ==
    /\ cls_docs \in Corpora
    /\ threshold \in Thresholds
    /\ query = NoQuery
    /\ top_n = 0
    /\ di = SeekFrom(cls_docs, 1, 1)[1]
    /\ si = SeekFrom(cls_docs, 1, 1)[2]
    /\ rpc = IF SeekFrom(cls_docs, 1, 1)[1] > Len(cls_docs) THEN "rows" ELSE "fold"
    /\ agg = <<>>
    /\ order = <<>>
    /\ seen = <<>>
    /\ rows = <<>>
    /\ ClassifyIdle
    /\ IngestIdle
    /\ SimIdle

ReportNext == FoldSegment \/ BuildRows \/ Filter \/ SortAndTruncate

ReportSpec == ReportInit /\ [][ReportNext]_vars

\* ---------------------------------------------- report: what was folded
\* Used by the properties below: the (document, result) positions of the
\* corpus, those the loops have passed, and what the code reads of each.
Positions == {p \in (1..Len(cls_docs)) \X (1..MaxSegs) : p[2] <= Len(ResultsOf(cls_docs[p[1]]))}
Folded == {p \in Positions : p[1] < di \/ (p[1] = di /\ p[2] < si)}
SegAt(p) == ResultsOf(cls_docs[p[1]])[p[2]]
IsCounted(p) == IsDict(SegAt(p)) /\ ~IsNone(safe_float(DictGet(SegAt(p), "confidence")))
ConfAt(p) == safe_float(DictGet(SegAt(p), "confidence")).n
KeyAt(p) == SpeciesKey(cls_docs[p[1]], SegAt(p))

RECURSIVE SumOf(_, _, _)
SumOf(keys, a, field) ==
    IF keys = <<>> THEN 0 ELSE a[Head(keys)][field] + SumOf(Tail(keys), a, field)

\* C6: after each segment is folded every species entry has
\* positive_segments <= segments_total and confidence_n <= segments_total,
\* and the positive segments of all species sum to no more than the totals.
C6_PositiveWithinTotal ==
    /\ \A k \in DOMAIN agg :
          /\ agg[k].positive_segments <= agg[k].segments_total
          /\ agg[k].confidence_n <= agg[k].segments_total
    /\ SumOf(order, agg, "positive_segments") <= SumOf(order, agg, "segments_total")

\* C6 witness: a species with two segments folded, one of them positive.
C6_Witness ==
    \E k \in DOMAIN agg : agg[k].segments_total = 2 /\ agg[k].positive_segments = 1

\* C7: the rows built before the species filter are exactly the species with
\* at least one counted segment at or above the threshold; every row has
\* positive_segments >= 1.
C7_RowsAreThePositiveSpecies ==
    rpc = "filter" =>
        LET positive == {KeyAt(p) : p \in {q \in Positions : IsCounted(q) /\ ConfAt(q) >= threshold}}
        IN  /\ \A i \in 1..Len(rows) : rows[i].positive_segments >= 1
            /\ {rows[i].scientific_name : i \in 1..Len(rows)} = positive
            /\ Len(rows) = Cardinality(positive)

\* C7 witness: two species were aggregated and only the one with a positive
\* segment has a row.
C7_Witness ==
    /\ rpc = "filter"
    /\ Cardinality(DOMAIN agg) = 2
    /\ Len(rows) = 1
    /\ \E k \in DOMAIN agg : agg[k].positive_segments = 0

\* C8: positive_segments of every species is the number of its counted
\* segments folded so far whose confidence is >= the threshold, a confidence
\* equal to the threshold included.
C8_PositiveCountsAtOrAboveThreshold ==
    /\ \A k \in DOMAIN agg :
          agg[k].positive_segments =
              Cardinality({p \in Folded : IsCounted(p) /\ KeyAt(p) = k /\ ConfAt(p) >= threshold})
    /\ \A p \in Folded : IsCounted(p) => KeyAt(p) \in DOMAIN agg

\* C8 witness: a folded segment whose confidence equals the threshold, and
\* it is the one positive segment of its species.
C8_Witness ==
    \E p \in Folded :
        /\ IsCounted(p)
        /\ ConfAt(p) = threshold
        /\ agg[KeyAt(p)].positive_segments = 1
        /\ agg[KeyAt(p)].segments_total = 1

\* C15 (as claimed): folding a segment whose confidence is missing, not a
\* number or outside [0, 1] (0 to 100000 in units of 0.00001) changes no
\* species entry, creates none, and adds to no contributing-recording set.
C15_UnusableConfidenceIsAbsent ==
    [][(/\ rpc = "fold"
        /\ IsDict(SegAt(<<di, si>>))
        /\ LET c == DictGet(SegAt(<<di, si>>), "confidence")
           IN  c.kind # "num" \/ c.n < 0 \/ c.n > 100000)
          => (agg' = agg /\ order' = order /\ seen' = seen)]_vars

\* C17 (as claimed): every counted segment is aggregated under its
\* scientific name when that is non-empty after trimming, otherwise under
\* its own label, otherwise under "unknown": the entry of that key counts
\* exactly the folded segments with that key, whatever outcome they are in.
C17_KeyFromSegmentAlone ==
    LET own(p) == DictGet(SegAt(p), "label")
        scientific(p) == Strip(SegScientific(SegAt(p)).s)
        claimed(p) == IF scientific(p) # <<>> THEN scientific(p)
                      ELSE IF Truthy(own(p)) THEN Strip(PyStr(own(p)))
                      ELSE T_unknown
        counted == {p \in Folded : IsCounted(p)}
    IN  \A p \in counted :
            /\ claimed(p) \in DOMAIN agg
            /\ agg[claimed(p)].segments_total =
                   Cardinality({q \in counted : claimed(q) = claimed(p)})

C10_FilterKeepsSimilarRows ==
    [][(rpc = "filter" /\ Truthy(query')) =>
        LET Q == trigram_set(query'.s)
            similar(name) ==
                LET N == trigram_set(name)
                IN  Q # {} /\ N # {} /\ 20 * Cardinality(Q \cap N) >= 7 * Cardinality(Q \cup N)
            survives(r) == similar(r.scientific_name) \/ similar(r.common_name) \/ similar(r.label)
        IN  rows' = SelectSeq(rows, survives)]_vars

\* C10 witness: the query "robin" over a row named American Robin and a row
\* named Bald Eagle has kept only the first.
C10_Witness ==
    /\ rpc = "sort"
    /\ query = JText(T_robin)
    /\ Len(order) = 2
    /\ \A k \in DOMAIN agg : agg[k].positive_segments > 0
    /\ \E k \in DOMAIN agg : agg[k].common_name = T_bald_eagle
    /\ Len(rows) = 1
    /\ rows[1].common_name = T_american_robin

Init == ClassifyInit /\ IngestIdle /\ ReportIdle /\ SimIdle

\* Independent processes against the same store: any run may take the next step.
Next == \E r \in Runs : ClassifyStep(r)

Spec == Init /\ [][Next]_vars

\* C1: in every reachable state of interleaved classify runs the
\* classifications collection holds at most one outcome per audio_id, and no
\* step replaces or modifies an outcome already stored.
C1_OneOutcomePerRecording ==
    /\ [](\A i, j \in 1..Len(cls) : cls[i].audio_id = cls[j].audio_id => i = j)
    /\ [][\A i \in 1..Len(cls) : i <= Len(cls') /\ cls'[i] = cls[i]]_vars

\* C1 witness: a second commit for a recording was refused and the stored
\* outcome is still the single first one.
C1_Witness ==
    \E r \in Runs :
        /\ err[r] = "DuplicateKeyError"
        /\ Cardinality({i \in 1..Len(cls) : cls[i].audio_id = Audio(r).audio_id}) = 1

\* C4 (as claimed): a run whose commit was refused as a duplicate goes on
\* with the remaining recordings and returns 0.
C4_ConflictIsNotAFailure ==
    \A r \in Runs :
        (err[r] = "DuplicateKeyError" /\ Finished(r))
            => (ExitCode(r) = 0 /\ idx[r] = Len(audio_files) + 1)

\* The counts of the summary line: processed and skipped. The code keeps no
\* other counter.
SummaryCounts(r) == processed[r] + skipped[r]

\* C13 (as claimed): when a run ends without a fatal error every recording
\* it listed is in exactly one of the counts of its summary, a recording
\* whose audio could not be fetched included: the counts sum to the number
\* of recordings.
C13_EveryRecordingCounted ==
    \A r \in Runs : pc[r] = "done" => SummaryCounts(r) = Len(audio_files)

\* C18 (as claimed): under any interleaving of classify runs no recording is
\* sent to the classifier more than once.
C18_OneRequestPerRecording ==
    \A a \in AudioIds : posts[a] <= 1

\* One run after another: a run starts once every earlier one has returned.
Turn(r) == \A q \in Runs : q < r => Finished(q)

SeqStep(r) ==
    \/ Turn(r) /\ Start(r)
    \/ Turn(r) /\ Check(r)
    \/ Turn(r) /\ Download(r)
    \/ Turn(r) /\ Post(r, Responses)
    \/ Turn(r) /\ PutLog(r)
    \/ Turn(r) /\ Insert(r)

SeqNext == \E r \in Runs : SeqStep(r)

SeqSpec == Init /\ [][SeqNext]_vars

\* C2: a run that finds an outcome for the recording it checks does nothing
\* for it but count it as skipped and move on (no download, no classifier
\* request, no log write, no commit); and over runs executed one after
\* another no recording is sent to the classifier more than once.
C2_SkipsClassified ==
    /\ [](\A a \in AudioIds : posts[a] <= 1)
    /\ [][\A r \in Runs :
            (pc[r] = "check" /\ (\E i \in 1..Len(cls) : cls[i].audio_id = Audio(r).audio_id))
                => /\ downloads' = downloads
                   /\ posts' = posts
                   /\ log_puts' = log_puts
                   /\ cls' = cls
                   /\ skipped'[r] = skipped[r] + 1
                   /\ processed'[r] = processed[r]
                   /\ idx'[r] = idx[r] + 1
                   /\ pc'[r] \in {"check", "done"}]_vars

\* C2 witness: a later run has skipped a recording an earlier run classified,
\* and the classifier saw that recording once.
C2_Witness ==
    \E r \in Runs : \E a \in AudioIds :
        /\ Finished(r)
        /\ skipped[r] >= 1
        /\ processed[r] = 0
        /\ posts[a] = 1
        /\ \E i \in 1..Len(cls) : cls[i].audio_id = a /\ cls[i].created_at # r

\* C16 (as claimed): the stored best label is the first non-empty of label /
\* taxon_code / species of the "best" object when that yields one, otherwise
\* of the first element of "predictions" (or "results"); the stored best
\* score is the numeric score of the object that supplied the label, and no
\* best score is stored without a best label.
C16_LabelAndScoreFromOneObject ==
    \A i \in 1..Len(cls) :
        LET parsed == cls[i].raw
            b == IF IsDict(parsed) THEN DictGet(parsed, "best") ELSE JNull
            preds == IF IsDict(parsed)
                     THEN PyOr(DictGet(parsed, "predictions"), DictGet(parsed, "results"))
                     ELSE JNull
            fromBest == IsDict(b) /\ Truthy(LabelOf(b))
            fromTop == /\ ~fromBest
                       /\ IsList(preds) /\ Len(preds.items) > 0 /\ IsDict(preds.items[1])
                       /\ Truthy(LabelOf(preds.items[1]))
        IN  /\ fromBest => /\ cls[i].best_label = LabelOf(b)
                           /\ cls[i].best_score = ScoreOf(DictGet(b, "score"))
            /\ fromTop => /\ cls[i].best_label = LabelOf(preds.items[1])
                          /\ cls[i].best_score = ScoreOf(DictGet(preds.items[1], "score"))
            /\ ~IsNone(cls[i].best_score) => Truthy(cls[i].best_label)

\* C3 (as claimed): when the request raised or the answer was not 2xx, the
\* commit stores an outcome with ok = false, no best label and no best score,
\* and the run continues with the next recording.
C3_FailedRequestStoresEmptyOutcome ==
    [][\A r \in Runs :
        (pc[r] = "insert" /\ ~RespOk(resp[r]))
            => /\ Len(cls') = Len(cls) + 1
               /\ cls'[Len(cls')].audio_id = Audio(r).audio_id
               /\ cls'[Len(cls')].http.ok = FALSE
               /\ IsNone(cls'[Len(cls')].best_label)
               /\ IsNone(cls'[Len(cls')].best_score)
               /\ pc'[r] \in {"check", "done"}]_vars

=============================================================================
